---- MODULE Spec2Model ----
(***************************************************************************)
(* A state-machine model of go-stream's session registry (TorrentManager,  *)
(* torrent.go) and of the HTTP handlers that mutate a session's subtitle   *)
(* list (handlers.go).  Every goroutine is a process with a program        *)
(* counter; one action is one lock-delimited step of a method.  A critical *)
(* section that cannot block inside is one atomic action whose guard is    *)
(* that the lock can be taken; sections that block while holding a lock    *)
(* (SelectFile's subtitle reads, cleanup's scan) are split into steps.     *)
(***************************************************************************)
EXTENDS Integers, Sequences, FiniteSets, TLC

\* ------------------------------------------------------------------ bounds

\* Operations started in one behaviour, per specification.
MaxOpsAdd == 2
MaxOpsSel == 3
MaxOpsGet == 3
MaxOpsRm == 3
MaxOpsSweep == 2
MaxOpsDisk == 2
MaxOpsAll == 3
MaxOpsSeq == 3
MaxOpsOrder == 2
MaxOpsBlock == 2
MaxOpsLock == 2
MaxOpsStop == 2
\* The longest subtitle file converted, in bytes.
MaxLen == 5
\* The clock runs from 0 to MaxTime; maxAge is MaxAge clock units.
MaxTime == 3
MaxAge == 1

\* ManagedTorrent.SelectedFile before any selection.
NoSelection == -1

\* Two request goroutines run concurrently, next to the sweep goroutine.
Workers == {1, 2}
Sweeper == 3
Procs == Workers \cup {Sweeper}
\* The magnet descriptors (info hashes) clients submit.
Ids == 1 .. 2

\* ------------------------------------------------------- strings and paths
\* A string is a sequence of one-character strings.

Max(S) == CHOOSE x \in S : \A y \in S : y <= x

Positions(s, c) == {i \in 1 .. Len(s) : s[i] = c}

HasPrefix(s, prefix) ==
  /\ Len(prefix) <= Len(s)
  /\ SubSeq(s, 1, Len(prefix)) = prefix

\* filepath.Base: the last element of the path.
Base(path) ==
  IF Positions(path, "/") = {} THEN path
  ELSE SubSeq(path, Max(Positions(path, "/")) + 1, Len(path))

\* filepath.Dir: all but the last element; "." when the path has no separator.
Dir(path) ==
  IF Positions(path, "/") = {} THEN <<".">>
  ELSE SubSeq(path, 1, Max(Positions(path, "/")) - 1)

\* filepath.Ext: the suffix beginning at the final dot of the last element.
Ext(path) ==
  LET b == Base(path)
  IN IF Positions(b, ".") = {} THEN <<>>
     ELSE SubSeq(b, Max(Positions(b, ".")), Len(b))

LowerChar(c) ==
  CASE c = "S" -> "s"
    [] c = "R" -> "r"
    [] c = "T" -> "t"
    [] c = "M" -> "m"
    [] c = "K" -> "k"
    [] c = "V" -> "v"
    [] OTHER -> c

\* strings.ToLower
ToLower(s) == [i \in 1 .. Len(s) |-> LowerChar(s[i])]

\* stripExt: strings.TrimSuffix(name, filepath.Ext(name))
stripExt(name) == SubSeq(name, 1, Len(name) - Len(Ext(name)))

videoExtensions ==
  { <<".", "m", "k", "v">>, <<".", "m", "p", "4">>, <<".", "a", "v", "i">>,
    <<".", "w", "e", "b", "m">>, <<".", "m", "o", "v">>, <<".", "m", "4", "v">> }

subtitleExtensions ==
  { <<".", "s", "r", "t">>, <<".", "v", "t", "t">>, <<".", "a", "s", "s">>,
    <<".", "s", "u", "b">> }

\* What the engine lists for a descriptor once its metadata has arrived
\* (t.Files(): display paths).  Odd descriptors are a show with a matching
\* and a foreign subtitle; even ones a video in the root directory with a
\* foreign subtitle, one in the same directory under another name (its
\* extension in upper case) and one elsewhere under the video's name.
EngineFiles(d) ==
  IF d % 2 = 1
  THEN << <<"S", "/", "a", ".", "m", "k", "v">>,
          <<"S", "/", "a", ".", "e", "n", ".", "s", "r", "t">>,
          <<"O", "/", "r", ".", "s", "r", "t">> >>
  ELSE << <<"m", ".", "m", "p", "4">>,
          <<"O", "/", "r", ".", "s", "r", "t">>,
          <<"x", ".", "V", "T", "T">>,
          <<"O", "/", "m", ".", "s", "r", "t">> >>

\* classifyFiles: one FileInfo per engine file, flags from the lower-cased
\* extension.
classifyFiles(d) ==
  [i \in 1 .. Len(EngineFiles(d)) |->
     LET path == EngineFiles(d)[i]
         ext == ToLower(Ext(path))
     IN [Index |-> i - 1,
         Path |-> path,
         IsVideo |-> ext \in videoExtensions,
         IsSubtitle |-> ext \in subtitleExtensions]]

\* mt.Files as AddMagnet stored it: classifyFiles(t), by descriptor.
FilesOf == [d \in Ids |-> classifyFiles(d)]

\* ------------------------------------------------------------------ errors
\* An error is its message, as a sequence of words.

\* What client.AddMagnet can fail with: the engine's own message, which may
\* quote the descriptor it could not parse.
EngineAddErrors ==
  { <<"invalid", "scheme">>, <<"parse", "timeout", "invalid", "escape">> }

\* timeoutCtx.Err(): the 60 s bound expired, or the caller's context ended.
CtxErrors ==
  { <<"context", "deadline", "exceeded">>, <<"context", "canceled">> }

\* fmt.Errorf("add magnet: %w", err)
AddMagnetErr(cause) == <<"add", "magnet">> \o cause

\* fmt.Errorf("metadata timeout: %w", timeoutCtx.Err())
MetadataTimeoutErr(cause) == <<"metadata", "timeout">> \o cause

ErrNotFound == <<"torrent", "not", "found">>
ErrOutOfRange == <<"file", "index", "out", "of", "range">>
ErrNoSelection == <<"no", "file", "selected">>

\* strings.Contains(err.Error(), word)
Contains(err, word) == \E i \in 1 .. Len(err) : err[i] = word

\* handleAddMagnet's mapping of an AddMagnet error to a response.
AddMagnetResponse(err) ==
  IF Contains(err, "timeout") THEN "504 metadata timeout"
  ELSE "500 error"

\* ------------------------------------------------------------------- state

VARIABLES
  torrents,    \* m.torrents: descriptor id -> session object (0: no entry)
  sess,        \* the ManagedTorrent objects ever stored, by object number
  hnd,         \* the engine's torrent handles ever handed out, by number
  engine,      \* the engine's own table: descriptor id -> tracked handle
  dedup,       \* whether the engine returns its tracked handle on re-add
  dataDir,     \* the directory m.dataDir: whether it exists, its entries
  call,        \* a call of a function without side effects, and its result
  now,         \* time.Now()
  pc,          \* each goroutine's position
  loc,         \* each goroutine's locals
  muReaders,   \* goroutines holding m.mu.RLock across steps
  muPending,   \* goroutines blocked in m.mu.Lock()
  nops,        \* operations started so far
  ctxDone,     \* the sweep loop's context was cancelled
  results,     \* history: what every finished call returned
  tickStale,   \* history: sessions stored and stale when the tick began
  tickTouched  \* history: sessions others accessed or removed since then

vars ==
  << torrents, sess, hnd, engine, dedup, dataDir, call, now, pc, loc,
     muReaders, muPending, nops, ctxDone, results, tickStale, tickTouched >>

\* A goroutine's locals while it runs nothing.
Loc0 ==
  [op |-> "none", id |-> 0, idx |-> 0, t |-> 0, mt |-> 0, created |-> 0,
   sel |-> NoSelection, i |-> 0, matched |-> <<>>, unmatched |-> <<>>,
   readOK |-> {}, scan |-> {}, stale |-> <<>>, failed |-> {}]

\* The data directory before the engine has written anything: the storage
\* is set up lazily, nothing creates the directory at construction.
NoDataDir == [exists |-> FALSE, entries |-> {}]

\* No function call is under way.
NoCall == [fn |-> "none", arg |-> <<>>, out |-> <<>>, done |-> TRUE]

Init ==
  /\ call = NoCall
  /\ torrents = [d \in Ids |-> 0]
  /\ sess = <<>>
  /\ hnd = <<>>
  /\ engine = [d \in Ids |-> 0]
  /\ dedup \in BOOLEAN
  /\ dataDir = NoDataDir
  /\ now = 0
  /\ pc = [p \in Procs |-> IF p = Sweeper THEN "cl_wait" ELSE "idle"]
  /\ loc = [p \in Procs |-> Loc0]
  /\ muReaders = {}
  /\ muPending = {}
  /\ nops = 0
  /\ ctxDone = FALSE
  /\ results = {}
  /\ tickStale = {}
  /\ tickTouched = {}

\* --------------------------------------------------------------- the locks

\* m.mu.RLock() succeeds: no writer holds the lock (write sections are
\* atomic here) and none waits for it, since sync.RWMutex blocks new readers
\* once a writer has called Lock.
CanRLock == muPending = {}

\* m.mu.Lock() succeeds: no reader holds the lock.
CanLock == muReaders = {}

\* mt.mu.Lock() succeeds for session object s.
CanLockSession(s) == sess[s].mu = 0

\* ------------------------------------------------------ shared definitions

\* mt.LastAccessed = time.Now()
TouchedNoRefresh(s, t) == s
Touched(s, t) == [s EXCEPT !.LastAccessed = t]

\* t.Drop(): the engine forgets the handle; the model counts the calls.
DropHandle(h) ==
  /\ hnd' = [hnd EXCEPT ![h].drops = @ + 1]
  /\ engine' = [d \in Ids |-> IF engine[d] = h THEN 0 ELSE engine[d]]

\* The record of a finished call: its arguments, the statement it returned
\* from (at), the handle and session it worked on, and what it returned:
\* a session (ret, 0 for none), an error (err, empty for none), and for
\* GetFileReader the file index the reader is bound to, for an attach the
\* index given to the new subtitle (val).
Result(l, at, ret, err, val) ==
  [op |-> l.op, id |-> l.id, idx |-> l.idx, at |-> at, t |-> l.t,
   mt |-> l.mt, readOK |-> l.readOK, ret |-> ret, err |-> err, val |-> val]

\* Leaving an operation: the goroutine is free again, the result is recorded.
ReturnVal(p, ret, err, val) ==
  /\ pc' = [pc EXCEPT ![p] = "idle"]
  /\ loc' = [loc EXCEPT ![p] = Loc0]
  /\ results' = results \cup {Result(loc[p], pc[p], ret, err, val)}

Return(p, ret, err) == ReturnVal(p, ret, err, 0)

Goto(p, label) ==
  /\ pc' = [pc EXCEPT ![p] = label]
  /\ results' = results

\* Entering an operation.  Idle goroutines are interchangeable: the
\* lowest-numbered one takes the next request.
Begin(p, label, locals) ==
  /\ pc[p] = "idle"
  /\ \A q \in Workers : q < p => pc[q] # "idle"
  /\ pc' = [pc EXCEPT ![p] = label]
  /\ loc' = [loc EXCEPT ![p] = locals]
  /\ nops' = nops + 1
  /\ results' = results

\* History of the running sweep tick: session s was accessed, or removed by
\* somebody else, after the tick began.
NoteTouched(s) ==
  tickTouched' = IF pc[Sweeper] = "cl_wait" THEN tickTouched
                 ELSE tickTouched \cup {s}

\* time passes
AdvanceTime ==
  /\ now < MaxTime
  /\ now' = now + 1
  /\ UNCHANGED << torrents, sess, hnd, engine, dedup, dataDir, call, pc, loc, muReaders,
                  muPending, nops, ctxDone, results, tickStale, tickTouched >>

\* --------------------------------------------------------------- AddMagnet

\* client.AddMagnet(uri) fails: AddMagnet returns the wrapped error.
AM_EngineError(p, d, cause) ==
  /\ pc[p] = "idle"
  /\ \A q \in Workers : q < p => pc[q] # "idle"
  /\ nops' = nops + 1
  /\ results' = results \cup
       {Result([Loc0 EXCEPT !.op = "AddMagnet", !.id = d], "am_start", 0,
               AddMagnetErr(cause), 0)}
  /\ UNCHANGED << pc, loc >>
  /\ UNCHANGED << torrents, sess, hnd, engine, dedup, dataDir, call, now, muReaders,
                  muPending, ctxDone, tickStale, tickTouched >>

\* client.AddMagnet(uri) succeeds with handle t; id = t.InfoHash().
AM_Start(p, d) ==
  /\ IF dedup /\ engine[d] # 0
     THEN /\ Begin(p, "am_check",
               [Loc0 EXCEPT !.op = "AddMagnet", !.id = d, !.t = engine[d]])
          /\ UNCHANGED << hnd, engine >>
     ELSE /\ hnd' = Append(hnd,
               [d |-> d, drops |-> 0,
                prio |-> [i \in 1 .. Len(FilesOf[d]) |-> "none"]])
          /\ engine' = [engine EXCEPT ![d] = Len(hnd) + 1]
          /\ Begin(p, "am_check",
               [Loc0 EXCEPT !.op = "AddMagnet", !.id = d, !.t = Len(hnd) + 1])
  /\ UNCHANGED << torrents, sess, dedup, dataDir, call, now, muReaders, muPending, ctxDone,
                  tickStale, tickTouched >>

\* RLock; look the id up; RUnlock.
AM_Check(p) ==
  /\ pc[p] = "am_check"
  /\ CanRLock
  /\ IF torrents[loc[p].id] # 0
     THEN /\ loc' = [loc EXCEPT ![p].mt = torrents[loc[p].id]]
          /\ Goto(p, "am_touch")
     ELSE /\ Goto(p, "am_wait")
          /\ loc' = loc
  /\ UNCHANGED << torrents, sess, hnd, engine, dedup, dataDir, call, now, muReaders,
                  muPending, nops, ctxDone, tickStale, tickTouched >>

\* Already managed: refresh LastAccessed under the session lock, return it.
AM_Touch(p) ==
  /\ pc[p] = "am_touch"
  /\ CanLockSession(loc[p].mt)
  /\ sess' = [sess EXCEPT ![loc[p].mt] = Touched(@, now)]
  /\ NoteTouched(loc[p].mt)
  /\ Return(p, loc[p].mt, <<>>)
  /\ UNCHANGED << torrents, hnd, engine, dedup, dataDir, call, now, muReaders, muPending,
                  nops, ctxDone, tickStale >>

\* <-t.GotInfo(): metadata arrived; the new ManagedTorrent is built with
\* LastAccessed = time.Now().
AM_GotInfo(p) ==
  /\ pc[p] = "am_wait"
  /\ Goto(p, "am_insert")
  /\ loc' = [loc EXCEPT ![p].created = now]
  /\ UNCHANGED << torrents, sess, hnd, engine, dedup, dataDir, call, now, muReaders,
                  muPending, nops, ctxDone, tickStale, tickTouched >>

\* <-timeoutCtx.Done(): the handle is dropped, nothing is stored.
AM_TimeoutLeak(p, cause) ==
  /\ pc[p] = "am_wait"
  /\ Return(p, 0, MetadataTimeoutErr(cause))
  /\ UNCHANGED << torrents, sess, hnd, engine, dedup, dataDir, call, now, muReaders,
                  muPending, nops, ctxDone, tickStale, tickTouched >>

AM_Timeout(p, cause) ==
  /\ pc[p] = "am_wait"
  /\ DropHandle(loc[p].t)
  /\ Return(p, 0, MetadataTimeoutErr(cause))
  /\ UNCHANGED << torrents, sess, dedup, dataDir, call, now, muReaders, muPending, nops,
                  ctxDone, tickStale, tickTouched >>

\* The double check under the write lock: is the id already stored?
AlreadyStoredUnchecked(m, id) == FALSE
AlreadyStored(m, id) == m[id] # 0

\* Lock; double-check; store the new session unless one is there; Unlock.
AM_Insert(p) ==
  /\ pc[p] = "am_insert"
  /\ CanLock
  /\ muPending' = muPending \ {p}
  /\ IF AlreadyStored(torrents, loc[p].id)
     THEN /\ loc' = [loc EXCEPT ![p].mt = torrents[loc[p].id]]
          /\ Goto(p, "am_drop")
          /\ UNCHANGED << torrents, sess >>
     ELSE /\ sess' = Append(sess,
               [ID |-> loc[p].id, Torrent |-> loc[p].t,
                SelectedFile |-> NoSelection, Subtitles |-> <<>>,
                LastAccessed |-> loc[p].created, mu |-> 0,
                prevSel |-> NoSelection, prevAttached |-> FALSE])
          /\ torrents' = [torrents EXCEPT ![loc[p].id] = Len(sess) + 1]
          /\ Return(p, Len(sess) + 1, <<>>)
  /\ UNCHANGED << hnd, engine, dedup, dataDir, call, now, muReaders, nops, ctxDone,
                  tickStale, tickTouched >>

\* The loser of the race drops its own handle and returns the stored session.
AM_DropDupLeak(p) ==
  /\ pc[p] = "am_drop"
  /\ Return(p, loc[p].mt, <<>>)
  /\ UNCHANGED << torrents, sess, hnd, engine, dedup, dataDir, call, now, muReaders,
                  muPending, nops, ctxDone, tickStale, tickTouched >>

AM_DropDup(p) ==
  /\ pc[p] = "am_drop"
  /\ DropHandle(loc[p].t)
  /\ Return(p, loc[p].mt, <<>>)
  /\ UNCHANGED << torrents, sess, dedup, dataDir, call, now, muReaders, muPending, nops,
                  ctxDone, tickStale, tickTouched >>

AddMagnetSteps(p) ==
  \/ AM_Check(p)
  \/ AM_Touch(p)
  \/ AM_GotInfo(p)
  \/ \E cause \in CtxErrors : AM_Timeout(p, cause)
  \/ AM_Insert(p)
  \/ AM_DropDup(p)

\* Concurrent AddMagnet calls only.
NextAdd ==
  \/ /\ nops < MaxOpsAdd
     /\ \E p \in Workers, d \in Ids :
          \/ AM_Start(p, d)
          \/ \E cause \in EngineAddErrors : AM_EngineError(p, d, cause)
  \/ \E p \in Workers : AddMagnetSteps(p)

SpecAdd == Init /\ [][NextAdd]_vars

\* A registry that already holds sessions: what n successful AddMagnet calls,
\* for descriptors 1 .. n, leave behind.  The sessions have been idle since
\* time 0; n is one of `counts', the clock reads one of `times' and the
\* engine is one of `engines'.
InitStoredAt(counts, times, engines) ==
  /\ \E n \in counts :
       /\ torrents = [d \in Ids |-> IF d <= n THEN d ELSE 0]
       /\ engine = [d \in Ids |-> IF d <= n THEN d ELSE 0]
       /\ sess = [k \in 1 .. n |->
            [ID |-> k, Torrent |-> k, SelectedFile |-> NoSelection,
             Subtitles |-> <<>>, LastAccessed |-> 0, mu |-> 0,
             prevSel |-> NoSelection, prevAttached |-> FALSE]]
       /\ hnd = [k \in 1 .. n |->
            [d |-> k, drops |-> 0,
             prio |-> [i \in 1 .. Len(FilesOf[k]) |-> "none"]]]
  /\ dedup \in engines
  /\ dataDir = NoDataDir
  /\ call = NoCall
  /\ now \in times
  /\ pc = [p \in Procs |-> IF p = Sweeper THEN "cl_wait" ELSE "idle"]
  /\ loc = [p \in Procs |-> Loc0]
  /\ muReaders = {}
  /\ muPending = {}
  /\ nops = 0
  /\ ctxDone = FALSE
  /\ results = {}
  /\ tickStale = {}
  /\ tickTouched = {}

\* -------------------------------------------------------------- GetTorrent

\* RLock; mt, ok := m.torrents[id]; RUnlock.  A caller that finds nothing
\* returns errIfMissing.
GetTorrent_Lookup(p, here, there, errIfMissing) ==
  /\ pc[p] = here
  /\ CanRLock
  /\ IF torrents[loc[p].id] # 0
     THEN /\ loc' = [loc EXCEPT ![p].mt = torrents[loc[p].id]]
          /\ Goto(p, there)
     ELSE Return(p, 0, errIfMissing)
  /\ UNCHANGED << torrents, sess, hnd, engine, dedup, dataDir, call, now, muReaders,
                  muPending, nops, ctxDone, tickStale, tickTouched >>

\* if ok { mt.mu.Lock(); mt.LastAccessed = time.Now(); mt.mu.Unlock() }
GetTorrent_Touch(p, here, there) ==
  /\ pc[p] = here
  /\ CanLockSession(loc[p].mt)
  /\ sess' = [sess EXCEPT ![loc[p].mt] = Touched(@, now)]
  /\ NoteTouched(loc[p].mt)
  /\ IF there = "idle"
     THEN Return(p, loc[p].mt, <<>>)
     ELSE Goto(p, there) /\ loc' = loc
  /\ UNCHANGED << torrents, hnd, engine, dedup, dataDir, call, now, muReaders, muPending,
                  nops, ctxDone, tickStale >>

\* A request that only looks a session up (handleSubtitle, the search
\* handler): GetTorrent(id).
GT_Start(p, id) ==
  /\ Begin(p, "gt_lookup", [Loc0 EXCEPT !.op = "GetTorrent", !.id = id])
  /\ UNCHANGED << torrents, sess, hnd, engine, dedup, dataDir, call, now, muReaders,
                  muPending, ctxDone, tickStale, tickTouched >>

GT_Lookup(p) == GetTorrent_Lookup(p, "gt_lookup", "gt_touch", <<>>)

GT_Touch(p) == GetTorrent_Touch(p, "gt_touch", "idle")

\* -------------------------------------------------------------- SelectFile

\* if fileIndex < 0 || fileIndex >= len(mt.Files)
OutOfRangeOffByOne(fileIndex, n) == fileIndex < 0 \/ fileIndex > n
OutOfRange(fileIndex, n) == fileIndex < 0 \/ fileIndex >= n

\* The files of session object s (mt.Files), 1-based here, Index 0-based.
Files(s) == FilesOf[sess[s].ID]

\* for _, f := range torrentFiles { f.SetPriority(None) };
\* torrentFiles[fileIndex].SetPriority(Normal)
SelectedPriorities(n, fileIndex) ==
  [i \in 1 .. n |-> IF i = fileIndex + 1 THEN "normal" ELSE "none"]

\* The subtitle matcher: the candidate's base name without extension starts
\* with the video's, or both lie in the same directory.
IsMatchDirOnly(videoPath, subPath) == Dir(subPath) = Dir(videoPath)
IsMatch(videoPath, subPath) ==
  \/ HasPrefix(stripExt(Base(subPath)), stripExt(Base(videoPath)))
  \/ Dir(subPath) = Dir(videoPath)

\* The next file at or after position i (1-based) flagged IsSubtitle, or
\* one past the end.
NextSubtitle(files, i) ==
  LET S == {j \in i .. Len(files) : files[j].IsSubtitle}
  IN IF S = {} THEN Len(files) + 1 ELSE CHOOSE j \in S : \A k \in S : j <= k

\* The SubtitleInfo built for file i (0-based) once its bytes were read;
\* .srt content goes through ConvertSRTtoVTT.
NativeSubtitle(file) ==
  [Name |-> Base(file.Path), Index |-> file.Index,
   Content |-> [origin |-> "torrent",
                converted |-> ToLower(Ext(file.Path)) = <<".", "s", "r", "t">>]]

\* mt.Subtitles = append(matched, other...)
RebuiltMatchedOnly(matched, unmatched) == matched
Rebuilt(matched, unmatched) == matched \o unmatched

\* Per descriptor, selected file v and candidate file i (both 1-based): the
\* matcher's verdict and the entry built.
MatchOf ==
  [d \in Ids |-> [v \in 1 .. Len(FilesOf[d]) |-> [i \in 1 .. Len(FilesOf[d]) |->
     IsMatch(FilesOf[d][v].Path, FilesOf[d][i].Path)]]]

NativeSubtitleOf ==
  [d \in Ids |-> [i \in 1 .. Len(FilesOf[d]) |-> NativeSubtitle(FilesOf[d][i])]]

NextSubtitleOf ==
  [d \in Ids |-> [i \in 1 .. Len(FilesOf[d]) + 1 |-> NextSubtitle(FilesOf[d], i)]]

SEL_Start(p, id, fileIndex) ==
  /\ Begin(p, "sf_lookup",
       [Loc0 EXCEPT !.op = "SelectFile", !.id = id, !.idx = fileIndex])
  /\ UNCHANGED << torrents, sess, hnd, engine, dedup, dataDir, call, now, muReaders,
                  muPending, ctxDone, tickStale, tickTouched >>

SEL_Lookup(p) == GetTorrent_Lookup(p, "sf_lookup", "sf_touch", ErrNotFound)

SEL_Touch(p) == GetTorrent_Touch(p, "sf_touch", "sf_lock")

\* mt.mu.Lock(); the range check; the priorities; SelectedFile = fileIndex;
\* Subtitles = nil.  The lock stays held (defer) unless the check fails.
SEL_Lock(p) ==
  LET s == loc[p].mt
      h == sess[s].Torrent
      n == Len(Files(s))
      old == sess[s]
  IN /\ pc[p] = "sf_lock"
     /\ CanLockSession(s)
     /\ IF OutOfRange(loc[p].idx, n)
        THEN /\ Return(p, 0, ErrOutOfRange)
             /\ UNCHANGED << sess, hnd >>
        ELSE /\ hnd' = [hnd EXCEPT ![h].prio = SelectedPriorities(n, loc[p].idx)]
             /\ sess' = [sess EXCEPT ![s] =
                  [old EXCEPT !.mu = p, !.SelectedFile = loc[p].idx,
                              !.Subtitles = <<>>,
                              !.prevSel = old.SelectedFile,
                              !.prevAttached =
                                 \E k \in 1 .. Len(old.Subtitles) :
                                    old.Subtitles[k].Index < 0]]
             /\ loc' = [loc EXCEPT ![p].i = NextSubtitleOf[old.ID][1]]
             /\ Goto(p, "sf_scan")
     /\ UNCHANGED << torrents, engine, dedup, dataDir, call, now, muReaders, muPending, nops,
                     ctxDone, tickStale, tickTouched >>

\* One round of the loop for the next IsSubtitle file: SetPriority(Now),
\* then readTorrentFile, which blocks until the bytes are there (ok) or the
\* read fails; a file that was read is filed under matched or unmatched.
SEL_ReadFilesFailed(p, ok) ==
  LET s == loc[p].mt
      h == sess[s].Torrent
      i == loc[p].i
      files == Files(s)
      sub == NativeSubtitleOf[sess[s].ID][i]
      isMatch == MatchOf[sess[s].ID][loc[p].idx + 1][i]
  IN /\ pc[p] = "sf_scan"
     /\ i <= Len(files)
     /\ hnd' = [hnd EXCEPT ![h].prio[i] = "now"]
     /\ loc' = [loc EXCEPT
          ![p].i = NextSubtitleOf[sess[s].ID][i + 1],
          ![p].readOK = IF ok THEN @ \cup {i} ELSE @,
          ![p].matched = IF isMatch THEN Append(@, sub) ELSE @,
          ![p].unmatched = IF ~isMatch THEN Append(@, sub) ELSE @]
     /\ UNCHANGED << torrents, sess, engine, dedup, dataDir, call, now, pc, muReaders,
                     muPending, nops, ctxDone, results, tickStale,
                     tickTouched >>

SEL_Read(p, ok) ==
  LET s == loc[p].mt
      h == sess[s].Torrent
      i == loc[p].i
      files == Files(s)
      sub == NativeSubtitleOf[sess[s].ID][i]
      isMatch == MatchOf[sess[s].ID][loc[p].idx + 1][i]
  IN /\ pc[p] = "sf_scan"
     /\ i <= Len(files)
     /\ hnd' = [hnd EXCEPT ![h].prio[i] = "now"]
     /\ loc' = [loc EXCEPT
          ![p].i = NextSubtitleOf[sess[s].ID][i + 1],
          ![p].readOK = IF ok THEN @ \cup {i} ELSE @,
          ![p].matched = IF ok /\ isMatch THEN Append(@, sub) ELSE @,
          ![p].unmatched = IF ok /\ ~isMatch THEN Append(@, sub) ELSE @]
     /\ UNCHANGED << torrents, sess, engine, dedup, dataDir, call, now, pc, muReaders,
                     muPending, nops, ctxDone, results, tickStale,
                     tickTouched >>

\* After the loop: mt.Subtitles = append(matched, other...); the deferred
\* Unlock; return mt.
SEL_FinishLocked(p) ==
  LET s == loc[p].mt
  IN /\ pc[p] = "sf_scan"
     /\ loc[p].i > Len(Files(s))
     /\ sess' = [sess EXCEPT ![s] =
          [@ EXCEPT !.Subtitles = Rebuilt(loc[p].matched, loc[p].unmatched)]]
     /\ Return(p, s, <<>>)
     /\ UNCHANGED << torrents, hnd, engine, dedup, dataDir, call, now, muReaders, muPending,
                     nops, ctxDone, tickStale, tickTouched >>

SEL_Finish(p) ==
  LET s == loc[p].mt
  IN /\ pc[p] = "sf_scan"
     /\ loc[p].i > Len(Files(s))
     /\ sess' = [sess EXCEPT ![s] =
          [@ EXCEPT !.mu = 0,
                    !.Subtitles = Rebuilt(loc[p].matched, loc[p].unmatched)]]
     /\ Return(p, s, <<>>)
     /\ UNCHANGED << torrents, hnd, engine, dedup, dataDir, call, now, muReaders, muPending,
                     nops, ctxDone, tickStale, tickTouched >>

SelectFileSteps(p) ==
  \/ SEL_Lookup(p)
  \/ SEL_Touch(p)
  \/ SEL_Lock(p)
  \/ \E ok \in BOOLEAN : SEL_Read(p, ok)
  \/ SEL_Finish(p)

\* ----------------------------------------------------------- GetFileReader

GR_Start(p, id) ==
  /\ Begin(p, "gr_lookup", [Loc0 EXCEPT !.op = "GetFileReader", !.id = id])
  /\ UNCHANGED << torrents, sess, hnd, engine, dedup, dataDir, call, now, muReaders,
                  muPending, ctxDone, tickStale, tickTouched >>

GR_Lookup(p) == GetTorrent_Lookup(p, "gr_lookup", "gr_touch", ErrNotFound)

GR_Touch(p) == GetTorrent_Touch(p, "gr_touch", "gr_read")

\* if selectedIdx < 0
NothingSelectedZeroOnly(selectedIdx) == selectedIdx = 0
NothingSelected(selectedIdx) == selectedIdx < 0

\* mt.mu.Lock(); selectedIdx := mt.SelectedFile; mt.mu.Unlock(); the check.
GR_Read(p) ==
  LET s == loc[p].mt
  IN /\ pc[p] = "gr_read"
     /\ CanLockSession(s)
     /\ IF NothingSelected(sess[s].SelectedFile)
        THEN Return(p, 0, ErrNoSelection)
        ELSE /\ loc' = [loc EXCEPT ![p].sel = sess[s].SelectedFile]
             /\ Goto(p, "gr_open")
     /\ UNCHANGED << torrents, sess, hnd, engine, dedup, dataDir, call, now, muReaders,
                     muPending, nops, ctxDone, tickStale, tickTouched >>

\* file := mt.Torrent.Files()[selectedIdx]; reader := file.NewReader(); the
\* reader and the file are returned.
GR_Open(p) ==
  /\ pc[p] = "gr_open"
  /\ ReturnVal(p, loc[p].mt, <<>>, loc[p].sel)
  /\ UNCHANGED << torrents, sess, hnd, engine, dedup, dataDir, call, now, muReaders,
                  muPending, nops, ctxDone, tickStale, tickTouched >>

GetFileReaderSteps(p) ==
  \/ GR_Lookup(p)
  \/ GR_Touch(p)
  \/ GR_Read(p)
  \/ GR_Open(p)

\* ------------------------------------------------------ attaching subtitles

\* The file name of an upload (header.Filename) and the one the subtitle
\* service returns (dlResp.FileName).
UploadName == <<"u", ".", "S", "R", "T">>
DownloadName == <<"d", ".", "v", "t", "t">>

\* The entry both attach handlers append: index -(len(mt.Subtitles) + 1);
\* an .srt file is converted and renamed .vtt.
AttachedSubtitleFirstOnly(subs, name, origin) ==
  LET srt == ToLower(Ext(name)) = <<".", "s", "r", "t">>
  IN [Name |-> IF srt THEN stripExt(name) \o <<".", "v", "t", "t">> ELSE name,
      Index |-> -1,
      Content |-> [origin |-> origin, converted |-> srt]]
AttachedSubtitle(subs, name, origin) ==
  LET srt == ToLower(Ext(name)) = <<".", "s", "r", "t">>
  IN [Name |-> IF srt THEN stripExt(name) \o <<".", "v", "t", "t">> ELSE name,
      Index |-> -(Len(subs) + 1),
      Content |-> [origin |-> origin, converted |-> srt]]

\* mt.mu.Lock(); append; mt.mu.Unlock(); the handler answers.
Attach(p, here, name, origin) ==
  LET s == loc[p].mt
  IN /\ pc[p] = here
     /\ CanLockSession(s)
     /\ sess' = [sess EXCEPT ![s].Subtitles =
          Append(@, AttachedSubtitle(@, name, origin))]
     /\ ReturnVal(p, s, <<>>, -(Len(sess[s].Subtitles) + 1))
     /\ UNCHANGED << torrents, hnd, engine, dedup, dataDir, call, now, muReaders, muPending,
                     nops, ctxDone, tickStale, tickTouched >>

\* The request is refused after the lookup (body too large, no file part,
\* no fileId, the subtitle service failed): nothing is attached.
AttachRefused(p, here, err) ==
  /\ pc[p] = here
  /\ Return(p, 0, err)
  /\ UNCHANGED << torrents, sess, hnd, engine, dedup, dataDir, call, now, muReaders,
                  muPending, nops, ctxDone, tickStale, tickTouched >>

\* handleUploadSubtitle
UP_Start(p, id) ==
  /\ Begin(p, "up_lookup", [Loc0 EXCEPT !.op = "Upload", !.id = id])
  /\ UNCHANGED << torrents, sess, hnd, engine, dedup, dataDir, call, now, muReaders,
                  muPending, ctxDone, tickStale, tickTouched >>

UP_Lookup(p) == GetTorrent_Lookup(p, "up_lookup", "up_touch", ErrNotFound)

UP_Touch(p) == GetTorrent_Touch(p, "up_touch", "up_attach")

UP_Attach(p) == Attach(p, "up_attach", UploadName, "upload")

UP_Refused(p) == AttachRefused(p, "up_attach", <<"subtitle", "file", "required">>)

\* handleDownloadSubtitle
DL_Start(p, id) ==
  /\ Begin(p, "dl_lookup", [Loc0 EXCEPT !.op = "Download", !.id = id])
  /\ UNCHANGED << torrents, sess, hnd, engine, dedup, dataDir, call, now, muReaders,
                  muPending, ctxDone, tickStale, tickTouched >>

DL_Lookup(p) == GetTorrent_Lookup(p, "dl_lookup", "dl_touch", ErrNotFound)

DL_Touch(p) == GetTorrent_Touch(p, "dl_touch", "dl_attach")

DL_Attach(p) == Attach(p, "dl_attach", DownloadName, "download")

DL_Refused(p) == AttachRefused(p, "dl_attach", <<"download", "request", "failed">>)

AttachSteps(p) ==
  \/ UP_Lookup(p)
  \/ UP_Touch(p)
  \/ UP_Attach(p)
  \/ UP_Refused(p)
  \/ DL_Lookup(p)
  \/ DL_Touch(p)
  \/ DL_Attach(p)
  \/ DL_Refused(p)

\* ----------------------------------------------------------- RemoveTorrent

\* delete(m.torrents, id)
RemoveEntryKept(m, id) == m
RemoveEntry(m, id) == [m EXCEPT ![id] = 0]

RM_Start(p, id) ==
  /\ Begin(p, "rm_delete", [Loc0 EXCEPT !.op = "RemoveTorrent", !.id = id])
  /\ UNCHANGED << torrents, sess, hnd, engine, dedup, dataDir, call, now, muReaders,
                  muPending, ctxDone, tickStale, tickTouched >>

\* m.mu.Lock(); mt, ok := m.torrents[id]; if ok { delete }; m.mu.Unlock().
\* A call that found nothing returns here.
RM_Delete(p) ==
  LET id == loc[p].id
  IN /\ pc[p] = "rm_delete"
     /\ CanLock
     /\ muPending' = muPending \ {p}
     /\ IF torrents[id] # 0
        THEN /\ torrents' = RemoveEntry(torrents, id)
             /\ loc' = [loc EXCEPT ![p].mt = torrents[id]]
             /\ Goto(p, "rm_drop")
        ELSE /\ Return(p, 0, <<>>)
             /\ UNCHANGED torrents
     /\ UNCHANGED << sess, hnd, engine, dedup, dataDir, call, now, muReaders,
                     nops, ctxDone, tickStale, tickTouched >>

\* if ok { mt.Torrent.Drop() }, outside the registry lock.
RM_Drop(p) ==
  /\ pc[p] = "rm_drop"
  /\ DropHandle(sess[loc[p].mt].Torrent)
  /\ Return(p, 0, <<>>)
  /\ UNCHANGED << torrents, sess, dedup, dataDir, call, now, muReaders, muPending, nops,
                  ctxDone, tickStale, tickTouched >>

RemoveTorrentSteps(p) ==
  \/ RM_Delete(p)
  \/ RM_Drop(p)

\* ------------------------------------------------ the engine's file storage

\* The handle is tracked by the engine and has a file it wants data for.
Downloading(h) ==
  /\ hnd[h].drops = 0
  /\ \E i \in 1 .. Len(hnd[h].prio) : hnd[h].prio[i] # "none"

\* storage.NewFileByInfoHash(dataDir): the engine stores a piece of handle h,
\* creating dataDir/<info hash>/ as needed.  Nothing in Drop deletes it.
EngineWrite(h) ==
  /\ Downloading(h)
  /\ hnd[h].d \notin dataDir.entries
  /\ dataDir' = [exists |-> TRUE, entries |-> dataDir.entries \cup {hnd[h].d}]
  /\ UNCHANGED << torrents, sess, hnd, engine, dedup, call, now, pc, loc,
                  muReaders, muPending, nops, ctxDone, results, tickStale,
                  tickTouched >>

\* --------------------------------------------------------------- RemoveAll

\* os.ReadDir fails for a reason other than the directory not existing.
ReadDirErrors == {<<"permission", "denied">>}
ReadDirErr(cause) == <<"read", "data", "dir">> \o cause

\* The sessions stored whose handle is h.
StoredOn(h) == {d \in Ids : torrents[d] # 0 /\ sess[torrents[d]].Torrent = h}

RA_Start(p) ==
  /\ Begin(p, "ra_lock", [Loc0 EXCEPT !.op = "RemoveAll"])
  /\ UNCHANGED << torrents, sess, hnd, engine, dedup, dataDir, call, now,
                  muReaders, muPending, ctxDone, tickStale, tickTouched >>

\* m.mu.Lock(); for every stored id: mt.Torrent.Drop(); delete; Unlock.
RA_Drain(p) ==
  /\ pc[p] = "ra_lock"
  /\ CanLock
  /\ muPending' = muPending \ {p}
  /\ hnd' = [h \in DOMAIN hnd |->
       [hnd[h] EXCEPT !.drops = @ + Cardinality(StoredOn(h))]]
  /\ engine' = [d \in Ids |->
       IF engine[d] # 0 /\ StoredOn(engine[d]) # {} THEN 0 ELSE engine[d]]
  /\ torrents' = [d \in Ids |-> 0]
  /\ Goto(p, "ra_readdir")
  /\ UNCHANGED << sess, dedup, dataDir, call, now, loc, muReaders, nops,
                  ctxDone, tickStale, tickTouched >>

\* entries, err := os.ReadDir(m.dataDir): a missing directory ends the call
\* with nil, another failure (cause not empty) with the wrapped error.
RA_ReadDir(p, cause) ==
  /\ pc[p] = "ra_readdir"
  /\ IF ~dataDir.exists
     THEN /\ cause = <<>>
          /\ Return(p, 0, <<>>)
     ELSE IF cause = <<>>
     THEN /\ loc' = [loc EXCEPT ![p].scan = dataDir.entries]
          /\ Goto(p, "ra_delete")
     ELSE Return(p, 0, ReadDirErr(cause))
  /\ UNCHANGED << torrents, sess, hnd, engine, dedup, dataDir, call, now,
                  muReaders, muPending, nops, ctxDone, tickStale,
                  tickTouched >>

\* The entry os.ReadDir lists first: it sorts by file name.
FirstEntry(S) == CHOOSE d \in S : \A e \in S : d <= e

\* os.RemoveAll(filepath.Join(m.dataDir, e.Name())) for the next entry; the
\* error it returns is not looked at.  `failed' remembers, for the history,
\* the entries whose deletion failed.
RA_DeleteEntry(p, ok) ==
  LET d == FirstEntry(loc[p].scan)
  IN /\ pc[p] = "ra_delete"
     /\ loc[p].scan # {}
     /\ dataDir' = IF ok THEN [dataDir EXCEPT !.entries = @ \ {d}]
                   ELSE dataDir
     /\ loc' = [loc EXCEPT ![p].scan = @ \ {d},
                           ![p].failed = IF ok THEN @ ELSE @ \cup {d}]
     /\ UNCHANGED << torrents, sess, hnd, engine, dedup, call, now, pc, muReaders,
                     muPending, nops, ctxDone, results, tickStale,
                     tickTouched >>

\* return nil
RA_Return(p) ==
  /\ pc[p] = "ra_delete"
  /\ loc[p].scan = {}
  /\ Return(p, 0, <<>>)
  /\ UNCHANGED << torrents, sess, hnd, engine, dedup, dataDir, call, now,
                  muReaders, muPending, nops, ctxDone, tickStale,
                  tickTouched >>

RemoveAllSteps(p) ==
  \/ RA_Drain(p)
  \/ \E cause \in {<<>>} \cup ReadDirErrors : RA_ReadDir(p, cause)
  \/ \E ok \in BOOLEAN : RA_DeleteEntry(p, ok)
  \/ RA_Return(p)

\* ------------------------------------------------- CleanupLoop and cleanup

\* time.Since(mt.LastAccessed) > maxAge
IsStaleLate(lastAccessed, t) == t - lastAccessed > MaxAge + 1
IsStale(lastAccessed, t) == t - lastAccessed > MaxAge

\* Where the sweep goes once `rest' is what is left of its stale list.
AfterRemoval(rest) == IF rest = <<>> THEN "cl_wait" ELSE "cl_delete"

\* case <-ticker.C: m.cleanup(maxAge).  The select takes this case whenever
\* the ticker has fired, cancelled context or not.  The history notes which
\* stored sessions are older than maxAge at the tick.
K_Tick ==
  /\ pc[Sweeper] = "cl_wait"
  /\ Goto(Sweeper, "cl_rlock")
  /\ tickStale' = {s \in 1 .. Len(sess) :
                     /\ torrents[sess[s].ID] = s
                     /\ now - sess[s].LastAccessed > MaxAge}
  /\ tickTouched' = {}
  /\ UNCHANGED << torrents, sess, hnd, engine, dedup, dataDir, call, now, loc, muReaders,
                  muPending, nops, ctxDone >>

\* cancel() in main
K_Cancel ==
  /\ ~ctxDone
  /\ ctxDone' = TRUE
  /\ UNCHANGED << torrents, sess, hnd, engine, dedup, dataDir, call, now, pc, loc,
                  muReaders, muPending, nops, results, tickStale,
                  tickTouched >>

\* case <-ctx.Done(): return
K_Stop ==
  /\ pc[Sweeper] = "cl_wait"
  /\ ctxDone
  /\ Goto(Sweeper, "cl_done")
  /\ UNCHANGED << torrents, sess, hnd, engine, dedup, dataDir, call, now, loc, muReaders,
                  muPending, nops, ctxDone, tickStale, tickTouched >>

\* m.mu.RLock(); the range over m.torrents begins.
K_RLock ==
  /\ pc[Sweeper] = "cl_rlock"
  /\ CanRLock
  /\ muReaders' = muReaders \cup {Sweeper}
  /\ loc' = [loc EXCEPT ![Sweeper].scan = {d \in Ids : torrents[d] # 0},
                        ![Sweeper].stale = <<>>]
  /\ Goto(Sweeper, "cl_scan")
  /\ UNCHANGED << torrents, sess, hnd, engine, dedup, dataDir, call, now, muPending, nops,
                  ctxDone, tickStale, tickTouched >>

\* One round of the range, in the map's order (any): mt.mu.Lock(); the
\* staleness test; mt.mu.Unlock().
K_Scan(d) ==
  /\ pc[Sweeper] = "cl_scan"
  /\ d \in loc[Sweeper].scan
  /\ CanLockSession(torrents[d])
  /\ loc' = [loc EXCEPT
       ![Sweeper].scan = @ \ {d},
       ![Sweeper].stale =
          IF IsStale(sess[torrents[d]].LastAccessed, now)
          THEN Append(@, d) ELSE @]
  /\ UNCHANGED << torrents, sess, hnd, engine, dedup, dataDir, call, now, pc, muReaders,
                  muPending, nops, ctxDone, results, tickStale, tickTouched >>

\* m.mu.RUnlock() after the range; with nothing stale cleanup returns.
K_RUnlock ==
  /\ pc[Sweeper] = "cl_scan"
  /\ loc[Sweeper].scan = {}
  /\ muReaders' = muReaders \ {Sweeper}
  /\ Goto(Sweeper, AfterRemoval(loc[Sweeper].stale))
  /\ UNCHANGED << torrents, sess, hnd, engine, dedup, dataDir, call, now, loc, muPending,
                  nops, ctxDone, tickStale, tickTouched >>

\* m.RemoveTorrent(id) for the next stale id: the locked part.
K_Delete ==
  LET id == Head(loc[Sweeper].stale)
      rest == Tail(loc[Sweeper].stale)
  IN /\ pc[Sweeper] = "cl_delete"
     /\ CanLock
     /\ IF torrents[id] # 0
        THEN /\ torrents' = RemoveEntry(torrents, id)
             /\ loc' = [loc EXCEPT ![Sweeper].mt = torrents[id]]
             /\ Goto(Sweeper, "cl_drop")
        ELSE /\ loc' = [loc EXCEPT ![Sweeper].stale = rest]
             /\ Goto(Sweeper, AfterRemoval(rest))
             /\ UNCHANGED torrents
     /\ UNCHANGED << sess, hnd, engine, dedup, dataDir, call, now, muReaders, muPending,
                     nops, ctxDone, tickStale, tickTouched >>

\* m.RemoveTorrent(id): mt.Torrent.Drop(); on to the next stale id, or back
\* to the select.
K_Drop ==
  LET rest == Tail(loc[Sweeper].stale)
  IN /\ pc[Sweeper] = "cl_drop"
     /\ DropHandle(sess[loc[Sweeper].mt].Torrent)
     /\ loc' = [loc EXCEPT ![Sweeper].stale = rest, ![Sweeper].mt = 0]
     /\ Goto(Sweeper, AfterRemoval(rest))
     /\ UNCHANGED << torrents, sess, dedup, dataDir, call, now, muReaders, muPending, nops,
                     ctxDone, tickStale, tickTouched >>

CleanupSteps ==
  \/ K_Tick
  \/ K_Cancel
  \/ K_Stop
  \/ K_RLock
  \/ \E d \in Ids : K_Scan(d)
  \/ K_RUnlock
  \/ K_Delete
  \/ K_Drop

\* ---------------------------------------------------------- specifications

\* The file indexes a client may ask for: one below and one past the range.
FileIndexes(id) == -1 .. Len(FilesOf[id])

\* Selecting files and attaching subtitles, on sessions already stored.
NextSel ==
  \/ /\ nops < MaxOpsSel
     /\ \E p \in Workers, id \in Ids :
          \/ \E fileIndex \in FileIndexes(id) : SEL_Start(p, id, fileIndex)
          \/ UP_Start(p, id)
          \/ DL_Start(p, id)
  \/ \E p \in Workers : SelectFileSteps(p) \/ AttachSteps(p)

SpecSel == InitStoredAt({1}, {0}, {FALSE}) /\ [][NextSel]_vars

\* Looking sessions up and opening readers while files get selected; the
\* stored session was last accessed before the present time.
NextGet ==
  \/ /\ nops < MaxOpsGet
     /\ \E p \in Workers, id \in Ids :
          \/ GT_Start(p, id)
          \/ GR_Start(p, id)
          \/ \E fileIndex \in FileIndexes(id) : SEL_Start(p, id, fileIndex)
  \/ \E p \in Workers :
       GT_Lookup(p) \/ GT_Touch(p) \/ GetFileReaderSteps(p) \/ SelectFileSteps(p)

SpecGet == InitStoredAt({1}, {1}, {FALSE}) /\ [][NextGet]_vars

\* Removing sessions while others look them up.
NextRm ==
  \/ /\ nops < MaxOpsRm
     /\ \E p \in Workers, id \in Ids :
          \/ RM_Start(p, id)
          \/ GT_Start(p, id)
  \/ \E p \in Workers : RemoveTorrentSteps(p) \/ GT_Lookup(p) \/ GT_Touch(p)

SpecRm == InitStoredAt({1}, {1}, {FALSE}) /\ [][NextRm]_vars

\* The sweep goroutine next to requests that look sessions up, as time
\* passes.
NextSweep ==
  \/ CleanupSteps
  \/ AdvanceTime
  \/ /\ nops < MaxOpsSweep
     /\ \E p \in Workers, id \in Ids : GT_Start(p, id)
  \/ \E p \in Workers : GT_Lookup(p) \/ GT_Touch(p)

SpecSweep == InitStoredAt({1, 2}, {0}, {FALSE}) /\ [][NextSweep]_vars

\* The file indexes SelectFile accepts.
ValidIndexes(id) == 0 .. Len(FilesOf[id]) - 1

\* Sessions get a file selected, the engine stores data for them, and they
\* are destroyed: by RemoveTorrent calls and by the sweep.
NextDisk ==
  \/ CleanupSteps
  \/ AdvanceTime
  \/ \E h \in DOMAIN hnd : EngineWrite(h)
  \/ /\ nops < MaxOpsDisk
     /\ \E p \in Workers, id \in Ids :
          \/ \E fileIndex \in ValidIndexes(id) : SEL_Start(p, id, fileIndex)
          \/ RM_Start(p, id)
  \/ \E p \in Workers : SelectFileSteps(p) \/ RemoveTorrentSteps(p)

SpecDisk == InitStoredAt({1}, {0}, {FALSE}) /\ [][NextDisk]_vars

\* RemoveAll next to AddMagnet and SelectFile calls, the engine storing data.
NextAll ==
  \/ \E h \in DOMAIN hnd : EngineWrite(h)
  \/ /\ nops < MaxOpsAll
     /\ \E p \in Workers :
          \/ RA_Start(p)
          \/ \E d \in Ids : AM_Start(p, d)
          \/ \E id \in Ids : \E fileIndex \in ValidIndexes(id) :
               SEL_Start(p, id, fileIndex)
  \/ \E p \in Workers :
       AddMagnetSteps(p) \/ SelectFileSteps(p) \/ RemoveAllSteps(p)

SpecAll == InitStoredAt({1}, {0}, {TRUE}) /\ [][NextAll]_vars

\* SelectFile calls on two sessions, valid indexes only.
NextOrder ==
  \/ /\ nops < MaxOpsOrder
     /\ \E p \in Workers, id \in Ids :
          \E fileIndex \in ValidIndexes(id) : SEL_Start(p, id, fileIndex)
  \/ \E p \in Workers : SelectFileSteps(p)

SpecOrder == InitStoredAt({2}, {0}, {FALSE}) /\ [][NextOrder]_vars

\* m.mu.Lock() cannot be had: the caller waits in it, and from then on
\* sync.RWMutex lets no new reader in.
WLockWait(p) ==
  /\ pc[p] \in {"am_insert", "rm_delete", "ra_lock"}
  /\ ~CanLock
  /\ p \notin muPending
  /\ muPending' = muPending \cup {p}
  /\ UNCHANGED << torrents, sess, hnd, engine, dedup, dataDir, call, now, pc,
                  loc, muReaders, nops, ctxDone, results, tickStale,
                  tickTouched >>

\* The sweep next to SelectFile, GetTorrent, AddMagnet and RemoveTorrent
\* calls, with writers that wait for the registry lock.
NextBlock ==
  \/ CleanupSteps
  \/ /\ nops < MaxOpsBlock
     /\ \E p \in Workers, id \in Ids :
          \/ SEL_Start(p, id, 0)
          \/ GT_Start(p, id)
          \/ RM_Start(p, id)
          \/ AM_Start(p, id)
  \/ \E p \in Workers :
       \/ SelectFileSteps(p)
       \/ GT_Lookup(p) \/ GT_Touch(p)
       \/ RemoveTorrentSteps(p)
       \/ AddMagnetSteps(p)
       \/ WLockWait(p)

\* Two sessions that nobody has used for longer than maxAge.
SpecBlock == InitStoredAt({2}, {MaxAge + 1}, {TRUE}) /\ [][NextBlock]_vars

\* Every operation of the manager and the two attach handlers next to the
\* sweep, with writers that wait for the registry lock.  Nothing has been
\* downloaded: the data directory does not exist, and the part of RemoveAll
\* that follows its Unlock ends at os.ReadDir.
NextLock ==
  \/ CleanupSteps
  \/ /\ nops < MaxOpsLock
     /\ \E p \in Workers :
          \/ RA_Start(p)
          \/ \E id \in {1} :
               \/ AM_Start(p, id)
               \/ GT_Start(p, id)
               \/ SEL_Start(p, id, 0)
               \/ GR_Start(p, id)
               \/ RM_Start(p, id)
               \/ UP_Start(p, id)
               \/ DL_Start(p, id)
  \/ \E p \in Workers :
       \/ AddMagnetSteps(p)
       \/ GT_Lookup(p) \/ GT_Touch(p)
       \/ SelectFileSteps(p)
       \/ GetFileReaderSteps(p)
       \/ RemoveTorrentSteps(p)
       \/ RA_Drain(p) \/ RA_ReadDir(p, <<>>)
       \/ AttachSteps(p)
       \/ WLockWait(p)

SpecLock == InitStoredAt({1}, {MaxAge + 1}, {TRUE}) /\ [][NextLock]_vars

\* The sweep until it is cancelled, next to SelectFile calls.
NextStop ==
  \/ CleanupSteps
  \/ /\ nops < MaxOpsStop
     /\ \E p \in Workers, id \in Ids : SEL_Start(p, id, 0)
  \/ \E p \in Workers : SelectFileSteps(p)

\* The steps of a sweep tick once the select has taken the ticker's case.
TickSteps ==
  \/ K_RLock
  \/ \E d \in Ids : K_Scan(d)
  \/ K_RUnlock
  \/ K_Delete
  \/ K_Drop

\* The scheduler runs every goroutine that can run: a tick goes on while
\* its next statement does not block, and so does a SelectFile call up to
\* its subtitle reads, which return when the engine has the bytes, if ever.
\* The select picks among its ready cases at random: the cancelled context
\* is not passed over for ever.
SpecStop ==
  /\ InitStoredAt({2}, {MaxAge + 1}, {TRUE})
  /\ [][NextStop]_vars
  /\ WF_vars(TickSteps)
  /\ SF_vars(K_Stop)
  /\ \A p \in Workers : WF_vars(SEL_Lookup(p) \/ SEL_Touch(p) \/ SEL_Lock(p))

\* ------------------------------------------------- GetFileReader's window

\* Byte counts beyond 32 bits are kept as whole MiB plus a rest below one
\* MiB; file.Length() is an int64.
MiB == 1048576

\* The file lengths tried: around both thresholds, and the sizes between.
MiBCounts ==
  {0, 1, 100, 499, 500, 501, 502, 1023, 1024, 1025, 2046, 2047, 2048, 2049,
   2050, 3072, 4096, 8192}
Lengths == [mib : MiBCounts, rest : {0, 1, MiB - 1}]

\* file.Length() > n*1024*1024
ExceedsOrReaches(length, n) == length.mib >= n
Exceeds(length, n) ==
  length.mib > n \/ (length.mib = n /\ length.rest > 0)

\* readahead := int64(16 MiB); if file.Length() > 2 GiB { 64 MiB } else if
\* file.Length() > 500 MiB { 32 MiB }
readahead(length) ==
  IF Exceeds(length, 2 * 1024) THEN 64 * MiB
  ELSE IF Exceeds(length, 500) THEN 32 * MiB
  ELSE 16 * MiB

\* reader.SetReadahead(readahead); reader.SetResponsive()
GR_Configure ==
  /\ call.fn = "GetFileReader.configure"
  /\ ~call.done
  /\ call' = [call EXCEPT !.done = TRUE,
                          !.out = [readahead |-> readahead(call.arg),
                                   responsive |-> TRUE]]
  /\ UNCHANGED << torrents, sess, hnd, engine, dedup, dataDir, now, pc, loc,
                  muReaders, muPending, nops, ctxDone, results, tickStale,
                  tickTouched >>

\* A function call with one of `args', not yet run, in a fresh manager.
InitCall(fn, args) ==
  /\ \E arg \in args :
       call = [fn |-> fn, arg |-> arg, out |-> <<>>, done |-> FALSE]
  /\ torrents = [d \in Ids |-> 0]
  /\ sess = <<>>
  /\ hnd = <<>>
  /\ engine = [d \in Ids |-> 0]
  /\ dedup = TRUE
  /\ dataDir = NoDataDir
  /\ now = 0
  /\ pc = [p \in Procs |-> IF p = Sweeper THEN "cl_wait" ELSE "idle"]
  /\ loc = [p \in Procs |-> Loc0]
  /\ muReaders = {}
  /\ muPending = {}
  /\ nops = 0
  /\ ctxDone = FALSE
  /\ results = {}
  /\ tickStale = {}
  /\ tickTouched = {}

NextWindow == GR_Configure

SpecWindow ==
  InitCall("GetFileReader.configure", Lengths) /\ [][NextWindow]_vars

\* --------------------------------------------------------- ConvertSRTtoVTT
\* Subtitle content is a sequence of bytes, one-character strings here; the
\* three bytes of the byte-order mark are one symbol.

Bom == "BOM"
SrtBytes == {"1", "a", ",", " ", "\n", "-", ">", Bom}
SrtInputs == UNION {[1 .. n -> SrtBytes] : n \in 0 .. MaxLen}

\* bytes.TrimPrefix(srt, BOM)
TrimBOM(srt) == IF Len(srt) > 0 /\ srt[1] = Bom THEN Tail(srt) ELSE srt

\* bufio.ScanLines: a trailing carriage return is not part of the line.
dropCR(line) ==
  IF Len(line) > 0 /\ line[Len(line)] = "\r"
  THEN SubSeq(line, 1, Len(line) - 1) ELSE line

\* The tokens scanner.Scan() yields with scanner.Text(): the text up to each
\* newline, and what is left after the last one unless that is empty.
RECURSIVE ScanLines(_)
ScanLines(data) ==
  IF data = <<>> THEN <<>>
  ELSE LET ends == {i \in 1 .. Len(data) : data[i] = "\n"}
       IN IF ends = {} THEN << dropCR(data) >>
          ELSE LET k == CHOOSE i \in ends : \A j \in ends : i <= j
               IN << dropCR(SubSeq(data, 1, k - 1)) >>
                    \o ScanLines(SubSeq(data, k + 1, Len(data)))

\* strings.TrimSpace
IsSpace(c) == c \in {" ", "\t", "\r", "\n"}
TrimSpace(line) ==
  LET keep == {i \in 1 .. Len(line) : ~IsSpace(line[i])}
  IN IF keep = {} THEN <<>>
     ELSE SubSeq(line, CHOOSE i \in keep : \A j \in keep : i <= j, Max(keep))

isDigitsOnly(str) ==
  /\ str # <<>>
  /\ \A i \in 1 .. Len(str) :
       str[i] \in {"0", "1", "2", "3", "4", "5", "6", "7", "8", "9"}

\* strings.Contains(line, "-->")
ContainsArrow(line) ==
  \E i \in 1 .. Len(line) - 2 :
    line[i] = "-" /\ line[i + 1] = "-" /\ line[i + 2] = ">"

\* strings.ReplaceAll(line, ",", ".")
ReplaceCommas(line) ==
  [i \in 1 .. Len(line) |-> IF line[i] = "," THEN "." ELSE line[i]]

\* buf.WriteString("WEBVTT\n\n")
VttHeader == <<"W", "E", "B", "V", "T", "T", "\n", "\n">>

\* The scanner loop: what it writes for `lines', entered with afterBlank.
RECURSIVE ConvertLines(_, _)
ConvertLines(lines, afterBlank) ==
  IF lines = <<>> THEN <<>>
  ELSE LET line == Head(lines)
           trimmed == TrimSpace(line)
       IN IF afterBlank /\ isDigitsOnly(trimmed)
          THEN ConvertLines(Tail(lines), FALSE)
          ELSE (IF ContainsArrow(line) THEN ReplaceCommas(line) ELSE line)
                 \o <<"\n">> \o ConvertLines(Tail(lines), trimmed = <<>>)

ConvertSRTtoVTT(srt) ==
  VttHeader \o ConvertLines(ScanLines(TrimBOM(srt)), TRUE)

SRT_Convert ==
  /\ call.fn = "ConvertSRTtoVTT"
  /\ ~call.done
  /\ call' = [call EXCEPT !.done = TRUE, !.out = ConvertSRTtoVTT(call.arg)]
  /\ UNCHANGED << torrents, sess, hnd, engine, dedup, dataDir, now, pc, loc,
                  muReaders, muPending, nops, ctxDone, results, tickStale,
                  tickTouched >>

NextConvert == SRT_Convert

SpecConvert == InitCall("ConvertSRTtoVTT", SrtInputs) /\ [][NextConvert]_vars

\* One call at a time: a call starts when no other is running.
NextSeq ==
  \/ \E h \in DOMAIN hnd : EngineWrite(h)
  \/ /\ nops < MaxOpsSeq
     /\ \A q \in Workers : pc[q] = "idle"
     /\ \E p \in Workers :
          \/ RA_Start(p)
          \/ \E id \in Ids : \E fileIndex \in ValidIndexes(id) :
               SEL_Start(p, id, fileIndex)
  \/ \E p \in Workers : SelectFileSteps(p) \/ RemoveAllSteps(p)

SpecSeq == InitStoredAt({2}, {0}, {FALSE}) /\ [][NextSeq]_vars

\* ------------------------------------------------------ claims on AddMagnet

\* The AddMagnet calls that returned a session.
AddedOK == {r \in results : r.op = "AddMagnet" /\ r.err = <<>>}

\* C1: with AddMagnet calls only, no identifier ever gets a second session
\* object, and every AddMagnet call that returned a session returned the one
\* the registry stores under its identifier.
C1_OneSessionPerId ==
  /\ \A d \in Ids : Cardinality({s \in 1 .. Len(sess) : sess[s].ID = d}) <= 1
  /\ \A r \in AddedOK :
       /\ r.ret # 0
       /\ r.ret = torrents[r.id]
       /\ sess[r.ret].ID = r.id

\* Two calls raced through the metadata wait on one descriptor: one stored
\* its session, the other lost at the insert step, and both returned the
\* same session.
C1_Witness ==
  \E r, q \in AddedOK :
    /\ r.at = "am_insert"
    /\ q.at = "am_drop"
    /\ r.id = q.id
    /\ r.ret = q.ret

\* C2: an AddMagnet call that finds its identifier stored at the insert step
\* leaves the map as it is and goes on to drop the handle it obtained and to
\* return the session it found.
C2_LoserKeepsExisting ==
  [][\A p \in Workers :
       /\ (pc[p] = "am_insert" /\ pc'[p] # "am_insert"
           /\ torrents[loc[p].id] # 0) =>
            /\ torrents' = torrents
            /\ sess' = sess
            /\ pc'[p] = "am_drop"
            /\ loc'[p].mt = torrents[loc[p].id]
            /\ loc'[p].t = loc[p].t
       /\ (pc[p] = "am_drop" /\ pc'[p] # "am_drop") =>
            /\ hnd'[loc[p].t].drops = hnd[loc[p].t].drops + 1
            /\ torrents' = torrents
            /\ pc'[p] = "idle"
            /\ results' = results \cup
                 {Result(loc[p], "am_drop", loc[p].mt, <<>>, 0)}]_vars

\* A call lost the race at the insert step, dropped its handle and returned
\* the session the registry holds.
C2_Witness ==
  \E r \in AddedOK :
    /\ r.at = "am_drop"
    /\ hnd[r.t].drops > 0
    /\ torrents[r.id] = r.ret

\* C3: when the metadata wait ends by timeout or cancellation the call drops
\* its handle, leaves the map and the sessions alone and returns no session
\* but an error that starts "metadata timeout", which no add-failure error
\* does (those start "add magnet"); the handler answers it with its timeout
\* response.
C3_TimeoutReleases ==
  [][\A p \in Workers :
       (pc[p] = "am_wait" /\ pc'[p] = "idle") =>
          /\ hnd'[loc[p].t].drops = hnd[loc[p].t].drops + 1
          /\ torrents' = torrents
          /\ sess' = sess
          /\ \E r \in results' :
               /\ results' = results \cup {r}
               /\ r.id = loc[p].id /\ r.t = loc[p].t /\ r.at = "am_wait"
               /\ r.ret = 0
               /\ HasPrefix(r.err, <<"metadata", "timeout">>)
               /\ AddMagnetResponse(r.err) = "504 metadata timeout"
               /\ \A q \in results' :
                    q.at = "am_start" =>
                      /\ HasPrefix(q.err, <<"add", "magnet">>)
                      /\ ~HasPrefix(q.err, <<"metadata", "timeout">>)
                      /\ q.err # r.err]_vars

\* A call has timed out after another failed in the engine; the timed-out
\* call's handle is dropped and nothing is stored for its descriptor.
C3_Witness ==
  \E r, q \in results :
    /\ r.op = "AddMagnet"
    /\ r.at = "am_wait"
    /\ hnd[r.t].drops > 0
    /\ torrents[r.id] = 0
    /\ q.at = "am_start"

\* ----------------------------------------------------- claims on SelectFile

\* The program counter of p changes in this step: p takes it.
Steps(p, label) == pc[p] = label /\ pc'[p] # label

\* C4: a SelectFile call on an identifier that is not stored returns the
\* not-found error; one whose index is negative or at least the file count
\* returns the out-of-range error; neither step, nor the lookup's refresh
\* before the range check, changes any session's selected index or subtitle
\* list or any file's priority.
C4_SelectFileErrors ==
  [][\A p \in Workers :
       LET id == loc[p].id
           i == loc[p].idx
       IN /\ (Steps(p, "sf_lookup") /\ torrents[id] = 0) =>
               /\ pc'[p] = "idle"
               /\ results' = results \cup
                    {Result(loc[p], "sf_lookup", 0, ErrNotFound, 0)}
               /\ sess' = sess /\ hnd' = hnd /\ torrents' = torrents
          /\ Steps(p, "sf_touch") =>
               /\ hnd' = hnd
               /\ \A s \in 1 .. Len(sess) :
                    /\ sess'[s].SelectedFile = sess[s].SelectedFile
                    /\ sess'[s].Subtitles = sess[s].Subtitles
          /\ (Steps(p, "sf_lock") /\ (i < 0 \/ i >= Len(FilesOf[id]))) =>
               /\ pc'[p] = "idle"
               /\ results' = results \cup
                    {Result(loc[p], "sf_lock", 0, ErrOutOfRange, 0)}
               /\ ErrOutOfRange # ErrNotFound
               /\ sess' = sess /\ hnd' = hnd /\ torrents' = torrents]_vars

\* A call with the index equal to the file count was refused and so was a
\* call on an identifier that is not stored, while the session holds a
\* selection with subtitles.
C4_Witness ==
  \E r, q \in results :
    /\ r.op = "SelectFile" /\ r.err = ErrOutOfRange
    /\ r.idx = Len(FilesOf[r.id])
    /\ sess[r.mt].SelectedFile >= 0
    /\ sess[r.mt].Subtitles # <<>>
    /\ q.op = "SelectFile" /\ q.err = ErrNotFound

\* C5: when a SelectFile call succeeds, whatever was selected or attached
\* before, the session's selected index is the call's index and its
\* subtitle list has exactly one entry per is-subtitle file whose bytes the
\* call could read, each the entry built from that file; nothing else, in
\* particular no attached entry (negative index), remains.
C5_ReselectRebuilds ==
  [][\A p \in Workers :
       (pc[p] = "sf_scan" /\ pc'[p] = "idle") =>
          LET s == loc[p].mt
              d == sess[s].ID
              subs == sess'[s].Subtitles
          IN /\ sess'[s].SelectedFile = loc[p].idx
             /\ loc[p].readOK \subseteq
                  {i \in 1 .. Len(FilesOf[d]) : FilesOf[d][i].IsSubtitle}
             /\ Len(subs) = Cardinality(loc[p].readOK)
             /\ {subs[k].Index : k \in 1 .. Len(subs)} =
                  {i - 1 : i \in loc[p].readOK}
             /\ \A k \in 1 .. Len(subs) :
                  subs[k] = NativeSubtitle(FilesOf[d][subs[k].Index + 1])]_vars

\* A second selection, of another file, has succeeded on a session that
\* held an attached subtitle when that call took the session's lock.
C5_Witness ==
  \E r \in results :
    /\ r.op = "SelectFile" /\ r.at = "sf_scan"
    /\ sess[r.ret].mu = 0
    /\ sess[r.ret].SelectedFile = r.idx
    /\ sess[r.ret].prevSel >= 0
    /\ sess[r.ret].prevSel # r.idx
    /\ sess[r.ret].prevAttached
    /\ Len(sess[r.ret].Subtitles) = Cardinality(r.readOK)
    /\ r.readOK # {}

\* -------------------------------------- claims on GetFileReader, GetTorrent

\* C8: a GetFileReader call on an identifier that is not stored returns the
\* not-found error; one that reads a selected index of -1 under the session
\* lock returns the no-selection error; one that reads another index opens
\* the reader on the file at that index, which is a file of the session.  No
\* step of the call changes a session, and the error results carry no
\* reader.
C8_ReaderOrError ==
  [][\A p \in Workers :
       LET id == loc[p].id
           s == loc[p].mt
       IN /\ (Steps(p, "gr_lookup") /\ torrents[id] = 0) =>
               /\ pc'[p] = "idle"
               /\ results' = results \cup
                    {Result(loc[p], "gr_lookup", 0, ErrNotFound, 0)}
               /\ sess' = sess /\ hnd' = hnd
          /\ Steps(p, "gr_read") =>
               /\ sess' = sess /\ hnd' = hnd
               /\ sess[s].SelectedFile \in -1 .. Len(Files(s)) - 1
               /\ IF sess[s].SelectedFile = -1
                  THEN /\ pc'[p] = "idle"
                       /\ results' = results \cup
                            {Result(loc[p], "gr_read", 0, ErrNoSelection, 0)}
                  ELSE /\ pc'[p] = "gr_open"
                       /\ loc'[p].sel = sess[s].SelectedFile
          /\ Steps(p, "gr_open") =>
               /\ sess' = sess /\ hnd' = hnd
               /\ loc[p].sel \in 0 .. Len(Files(s)) - 1
               /\ pc'[p] = "idle"
               /\ results' = results \cup
                    {Result(loc[p], "gr_open", s, <<>>, loc[p].sel)}]_vars

\* One call found nothing selected; after a selection another call got a
\* reader on the selected file of the same session.
C8_Witness ==
  \E r, q \in results :
    /\ r.op = "GetFileReader" /\ r.err = ErrNoSelection
    /\ q.op = "GetFileReader" /\ q.err = <<>> /\ q.ret # 0
    /\ q.id = r.id
    /\ q.val = sess[q.ret].SelectedFile

\* C9: the lookup inside GetTorrent changes nothing and, for an identifier
\* that is not stored, ends the call with no session; the step after a
\* successful lookup sets that session's LastAccessed to the present time
\* and changes nothing else: not the map, no other field of any session, no
\* engine handle.
C9_LookupRefreshesOnly ==
  [][\A p \in Workers :
       LET id == loc[p].id
           s == loc[p].mt
       IN /\ Steps(p, "gt_lookup") =>
               /\ torrents' = torrents /\ sess' = sess /\ hnd' = hnd
               /\ IF torrents[id] = 0
                  THEN /\ pc'[p] = "idle"
                       /\ results' = results \cup
                            {Result(loc[p], "gt_lookup", 0, <<>>, 0)}
                  ELSE /\ pc'[p] = "gt_touch"
                       /\ loc'[p].mt = torrents[id]
          /\ (Steps(p, "gt_touch") \/ Steps(p, "gr_touch")
                \/ Steps(p, "sf_touch")) =>
               /\ torrents' = torrents /\ hnd' = hnd
               /\ sess' = [sess EXCEPT ![s].LastAccessed = now]
          /\ Steps(p, "gt_touch") =>
               /\ pc'[p] = "idle"
               /\ results' = results \cup
                    {Result(loc[p], "gt_touch", s, <<>>, 0)}]_vars

\* A GetTorrent call returned a session whose LastAccessed, earlier than the
\* present time before, now is the present time; another call found nothing.
C9_Witness ==
  \E r, q \in results :
    /\ r.op = "GetTorrent" /\ r.ret # 0
    /\ sess[r.ret].LastAccessed = now
    /\ now > 0
    /\ q.op = "GetTorrent" /\ q.ret = 0

\* -------------------------------------------------- claims on RemoveTorrent

\* The session objects no longer stored under their identifier.
Removed == {s \in 1 .. Len(sess) : torrents[sess[s].ID] # s}

\* C10: the locked step of RemoveTorrent deletes the entry of a stored
\* identifier and nothing else, and changes nothing for an absent one; the
\* step after a deletion drops that session's handle.  However many calls
\* run, one after another or at once, a session's handle is dropped once if
\* the session was removed and its remover is through, and not at all
\* otherwise: the state one call would leave.
C10_RemoveOnce ==
  /\ [](\A s \in 1 .. Len(sess) :
          hnd[sess[s].Torrent].drops =
            IF s \in Removed
                 /\ ~\E p \in Workers : pc[p] = "rm_drop" /\ loc[p].mt = s
            THEN 1 ELSE 0)
  /\ [][\A p \in Workers :
          LET id == loc[p].id
          IN /\ Steps(p, "rm_delete") =>
                  /\ sess' = sess /\ hnd' = hnd /\ engine' = engine
                  /\ IF torrents[id] # 0
                     THEN /\ torrents' = [torrents EXCEPT ![id] = 0]
                          /\ pc'[p] = "rm_drop"
                          /\ loc'[p].mt = torrents[id]
                     ELSE /\ torrents' = torrents
                          /\ pc'[p] = "idle"
             /\ Steps(p, "rm_drop") =>
                  /\ torrents' = torrents /\ sess' = sess
                  /\ hnd' = [hnd EXCEPT ![sess[loc[p].mt].Torrent].drops = 1]
                  /\ pc'[p] = "idle"]_vars

\* Two calls ran on the stored identifier, one removing the session and one
\* finding nothing; the handle was dropped once.  A third call, on an
\* identifier never stored, changed nothing.
C10_Witness ==
  /\ \A p \in Workers : pc[p] = "idle"
  /\ \E r, q, x \in results :
       /\ r.op = "RemoveTorrent" /\ r.at = "rm_drop"
       /\ q.op = "RemoveTorrent" /\ q.at = "rm_delete" /\ q.id = r.id
       /\ torrents[r.id] = 0
       /\ hnd[sess[r.mt].Torrent].drops = 1
       /\ x.op = "RemoveTorrent" /\ x.id # r.id

\* ------------------------------------------------------ claims on the sweep

\* C6: when a tick's cleanup has finished, each session that was stored and
\* older than maxAge at the tick, and that nobody accessed since the tick,
\* is out of the registry and its handle has been dropped.
C6_StaleSwept ==
  pc[Sweeper] \in {"cl_wait", "cl_done"} =>
    \A s \in tickStale \ tickTouched :
      /\ torrents[sess[s].ID] # s
      /\ hnd[sess[s].Torrent].drops >= 1

\* A tick has removed one stale session and dropped its handle, while
\* another session is still stored.
C6_Witness ==
  /\ pc[Sweeper] = "cl_wait"
  /\ \E s \in tickStale \ tickTouched :
       /\ torrents[sess[s].ID] # s
       /\ hnd[sess[s].Torrent].drops = 1
  /\ \E d \in Ids : torrents[d] # 0

\* C7: whenever the sweep deletes a session from the registry, that
\* session's last access lies more than maxAge back at that moment.
C7_SweepSparesFresh ==
  [][\A d \in Ids :
       (torrents[d] # 0 /\ torrents'[d] = 0) =>
          now - sess[torrents[d]].LastAccessed > MaxAge]_vars

\* --------------------------------------------- claims on the data directory

\* C11: once a session has been destroyed, by a RemoveTorrent call or by
\* the sweep, and the destroyer is through, the session's handle has been
\* dropped and the data directory has no entry for the session.
C11_DestroyedLeavesNothing ==
  \A s \in Removed :
    (~\E p \in Procs : pc[p] \in {"rm_drop", "cl_drop"} /\ loc[p].mt = s) =>
       /\ hnd[sess[s].Torrent].drops >= 1
       /\ sess[s].ID \notin dataDir.entries

\* C12: when a RemoveAll call that ran with no other call beside it returns
\* (here: returns no error, the case most favourable to the statement), the
\* registry is empty, every handle has been dropped exactly once and the
\* data directory has no entries.
C12_RemoveAllClears ==
  [][\A p \in Workers :
       (loc[p].op = "RemoveAll" /\ pc[p] # "idle" /\ pc'[p] = "idle"
          /\ results' = results \cup {Result(loc[p], pc[p], 0, <<>>, 0)}) =>
            /\ \A d \in Ids : torrents'[d] = 0
            /\ \A h \in DOMAIN hnd : hnd'[h].drops = 1
            /\ dataDir'.entries = {}]_vars

\* C13: a RemoveAll call during which the deletion of an entry failed does
\* not return nil.
C13_RemoveAllReportsFailure ==
  [][\A p \in Workers :
       (loc[p].op = "RemoveAll" /\ pc[p] # "idle" /\ pc'[p] = "idle"
          /\ loc[p].failed # {}) =>
            results' # results \cup {Result(loc[p], pc[p], 0, <<>>, 0)}]_vars

\* C14: whenever RemoveAll deletes an entry of the data directory, no
\* session is in the registry and no handle with an entry there is still
\* tracked by the engine.
C14_DeletesAfterTeardown ==
  [][\A p \in Workers :
       (pc[p] = "ra_delete" /\ dataDir'.entries # dataDir.entries) =>
          /\ \A d \in Ids : torrents[d] = 0
          /\ \A h \in DOMAIN hnd :
               hnd[h].d \in dataDir.entries => hnd[h].drops > 0]_vars

\* ------------------------------------------------ claims on subtitle indexes

\* The positions of the attached (uploaded or downloaded) entries of a list.
AttachedIn(subs) ==
  {k \in 1 .. Len(subs) : subs[k].Content.origin # "torrent"}

\* C15: in every state every session's subtitle list has pairwise different
\* indexes: an entry built from a torrent file has that file's ordinal, which
\* is not negative, an attached entry has a negative index, and no two
\* entries share one.
C15_IndexesUnique ==
  \A s \in 1 .. Len(sess) :
    LET subs == sess[s].Subtitles
    IN /\ \A j, k \in 1 .. Len(subs) :
            j # k => subs[j].Index # subs[k].Index
       /\ \A k \in 1 .. Len(subs) :
            IF k \in AttachedIn(subs)
            THEN subs[k].Index < 0
            ELSE /\ subs[k].Index \in 0 .. Len(Files(s)) - 1
                 /\ subs[k] = NativeSubtitle(Files(s)[subs[k].Index + 1])

\* A list holds entries built from torrent files and two attached entries.
C15_Witness ==
  \E s \in 1 .. Len(sess) :
    LET subs == sess[s].Subtitles
    IN /\ Cardinality(AttachedIn(subs)) >= 2
       /\ Cardinality(AttachedIn(subs)) < Len(subs)

\* C16: the entry an attach appends has index -k, k being its rank among the
\* attached entries of the list, however many entries built from torrent
\* files the list holds.
C16_AttachedSequential ==
  [][\A p \in Workers :
       (pc[p] \in {"up_attach", "dl_attach"} /\ pc'[p] = "idle"
          /\ sess' # sess) =>
            LET subs == sess'[loc[p].mt].Subtitles
            IN subs[Len(subs)].Index = -Cardinality(AttachedIn(subs))]_vars

\* --------------------------------------------- claims on the subtitle order

\* The matching rule in the statement's words: the candidate's base name
\* without extension starts with the selected file's, or both are in the
\* same directory.
MatchedByRule(selectedPath, candidatePath) ==
  \/ HasPrefix(stripExt(Base(candidatePath)), stripExt(Base(selectedPath)))
  \/ Dir(candidatePath) = Dir(selectedPath)

\* The list the statement describes for descriptor d, selected index v and
\* the readable files `readable' (1-based ordinals): matched candidates in
\* file order, then the unmatched ones in file order.
ListByRule(d, v, readable) ==
  LET files == FilesOf[d]
      ordinals == [i \in 1 .. Len(files) |-> i]
      IsCandidate(i) == files[i].IsSubtitle /\ i \in readable
      IsMatched(i) ==
        IsCandidate(i) /\ MatchedByRule(files[v + 1].Path, files[i].Path)
      IsUnmatched(i) ==
        IsCandidate(i) /\ ~MatchedByRule(files[v + 1].Path, files[i].Path)
      order == SelectSeq(ordinals, IsMatched) \o SelectSeq(ordinals, IsUnmatched)
  IN [k \in 1 .. Len(order) |-> NativeSubtitle(files[order[k]])]

\* The statement's example paths.
ShowVideo ==
  <<"S", "h", "o", "w", "/", "S", "0", "1", "E", "0", "1", ".", "m", "k", "v">>
ShowSubtitle ==
  <<"S", "h", "o", "w", "/", "S", "0", "1", "E", "0", "1", ".", "e", "n",
    ".", "s", "r", "t">>
OtherSubtitle ==
  <<"O", "t", "h", "e", "r", "/", "r", "a", "n", "d", "o", "m", ".", "s",
    "r", "t">>

\* C17: when a SelectFile call succeeds, the session's list is the matched
\* candidates in file order followed by the unmatched ones in file order,
\* under the statement's matching rule; the matcher puts Show/S01E01.en.srt
\* with Show/S01E01.mkv and Other/random.srt not.
C17_MatchedFirstInFileOrder ==
  [][\A p \in Workers :
       (pc[p] = "sf_scan" /\ pc'[p] = "idle") =>
          LET s == loc[p].mt
          IN /\ sess'[s].Subtitles =
                  ListByRule(sess[s].ID, loc[p].idx, loc[p].readOK)
             /\ IsMatch(ShowVideo, ShowSubtitle)
             /\ ~IsMatch(ShowVideo, OtherSubtitle)]_vars

\* A selection has produced a list in which a candidate matched by its
\* directory only and one matched by its name only come before an
\* unmatched candidate that precedes them in the file list.
C17_Witness ==
  \E s \in 1 .. Len(sess) :
    LET subs == sess[s].Subtitles
    IN /\ sess[s].mu = 0
       /\ Len(subs) = 3
       /\ subs[1].Index > subs[3].Index
       /\ subs[2].Index > subs[3].Index
       /\ subs[1].Index < subs[2].Index

\* ------------------------------------------------- claims on the read-ahead

\* C18: the window configured for a file of L bytes is 64 MiB if
\* L > 2 GiB, else 32 MiB if L > 500 MiB, else 16 MiB, so that exactly
\* 500 MiB gets 16 MiB and exactly 2 GiB gets 32 MiB, and the reader is in
\* responsive mode.
C18_ReadaheadTiers ==
  (call.fn = "GetFileReader.configure" /\ call.done) =>
     LET q == call.arg.mib
         r == call.arg.rest
         window == call.out.readahead
     IN /\ call.out.responsive
        /\ window \in {16 * 1048576, 32 * 1048576, 64 * 1048576}
        /\ window = 64 * 1048576 <=> (q > 2048 \/ (q = 2048 /\ r >= 1))
        /\ window = 16 * 1048576 <=> (q < 500 \/ (q = 500 /\ r = 0))
        /\ (q = 500 /\ r = 0) => window = 16 * 1048576
        /\ (q = 2048 /\ r = 0) => window = 32 * 1048576

\* The window for a file of exactly 2 GiB has been configured.
C18_Witness ==
  /\ call.fn = "GetFileReader.configure" /\ call.done
  /\ call.arg = [mib |-> 2048, rest |-> 0]
  /\ call.out.readahead = 32 * 1048576

\* ------------------------------------------------- claims on the conversion

\* The output the statement describes for the lines of an input: a line is
\* left out iff it is made of decimal digits only and is the first line or
\* comes directly after a blank line; commas become periods in the lines
\* containing the arrow; every line kept ends with a newline.
RECURSIVE LinesByRule(_, _)
LinesByRule(lines, first) ==
  IF lines = <<>> THEN <<>>
  ELSE LET line == Head(lines)
       IN IF first /\ isDigitsOnly(line)
          THEN LinesByRule(Tail(lines), FALSE)
          ELSE (IF ContainsArrow(line) THEN ReplaceCommas(line) ELSE line)
                 \o <<"\n">> \o LinesByRule(Tail(lines), TrimSpace(line) = <<>>)

\* C19: for every input the output is the header and a blank line followed
\* by the lines of the input without its leading byte-order mark, in order,
\* with the index lines left out and the timestamp commas replaced as the
\* statement says.
C19_ConvertedByRule ==
  (call.fn = "ConvertSRTtoVTT" /\ call.done) =>
     call.out = <<"W", "E", "B", "V", "T", "T", "\n", "\n">>
                  \o LinesByRule(ScanLines(TrimBOM(call.arg)), TRUE)

\* ----------------------------------------------------- claims on contention

\* The sweep holds the registry read lock and cannot go on: every session it
\* has yet to test is locked by somebody.
SweepStuck ==
  /\ pc[Sweeper] = "cl_scan"
  /\ loc[Sweeper].scan # {}
  /\ \A d \in loc[Sweeper].scan : ~CanLockSession(torrents[d])

\* Worker p cannot take the registry lock its next step needs.
WaitsForRegistry(p) ==
  \/ pc[p] \in {"am_insert", "rm_delete"} /\ ~CanLock
  \/ pc[p] \in {"am_check", "gt_lookup", "sf_lookup"} /\ ~CanRLock

\* C20: a call never waits for the registry lock while the sweep holds it
\* and is itself waiting for the lock of a session other than the call's:
\* the sweep keeps the registry lock only over steps that go through, and a
\* SelectFile holding one session's lock holds up no call on another.
C20_NoCrossSessionWait ==
  \A p \in Workers :
    (WaitsForRegistry(p) /\ SweepStuck) =>
       \E d \in loc[Sweeper].scan : d = loc[p].id

\* ----------------------------------------------------- claims on lock order

\* The statements at which a call takes the registry lock.
RegistrySteps ==
  {"am_check", "am_insert", "gt_lookup", "sf_lookup", "gr_lookup",
   "up_lookup", "dl_lookup", "rm_delete", "ra_lock", "cl_rlock", "cl_delete"}

\* p holds the lock of some session.
HoldsSession(p) == \E k \in 1 .. Len(sess) : sess[k].mu = p

\* The calls in progress, a sweep tick included.
Running == {p \in Procs : pc[p] \notin {"idle", "cl_wait", "cl_done"}}

\* A step of a call in progress (registering as a waiting writer is none).
CallStep ==
  \/ K_RLock \/ (\E d \in Ids : K_Scan(d)) \/ K_RUnlock \/ K_Delete \/ K_Drop
  \/ \E p \in Workers :
       \/ AddMagnetSteps(p)
       \/ GT_Lookup(p) \/ GT_Touch(p)
       \/ SelectFileSteps(p)
       \/ GetFileReaderSteps(p)
       \/ RemoveTorrentSteps(p)
       \/ RA_Drain(p) \/ RA_ReadDir(p, <<>>)
       \/ AttachSteps(p)

\* C21: nobody is about to take the registry lock while holding a session
\* lock, and whenever calls are in progress one of them can take a step:
\* no interleaving of the operations and the sweep ends in a deadlock.
C21_LockOrderNoDeadlock ==
  /\ \A p \in Procs : pc[p] \in RegistrySteps => ~HoldsSession(p)
  /\ Running # {} => ENABLED CallStep

\* The sweep holds the registry read lock and waits for a session that a
\* SelectFile has locked, while a writer waits for the registry lock.
C21_Witness ==
  /\ Sweeper \in muReaders
  /\ muPending # {}
  /\ \E p \in Workers : pc[p] = "sf_scan" /\ HoldsSession(p)
  /\ \A d \in loc[Sweeper].scan : ~CanLockSession(torrents[d])
  /\ loc[Sweeper].scan # {}

\* ------------------------------------------- claims on unreadable subtitles

\* The ordinals of the is-subtitle files of descriptor d in the order
\* SelectFile lists them for selected index v when every read succeeds.
FullOrder(d, v) ==
  LET files == FilesOf[d]
      ordinals == [i \in 1 .. Len(files) |-> i]
      InMatched(i) == files[i].IsSubtitle /\ MatchOf[d][v + 1][i]
      InOther(i) == files[i].IsSubtitle /\ ~MatchOf[d][v + 1][i]
  IN SelectSeq(ordinals, InMatched) \o SelectSeq(ordinals, InOther)

\* The is-subtitle files a finishing SelectFile could not read.
FailedReads(p) ==
  {i \in 1 .. Len(FilesOf[loc[p].id]) :
     FilesOf[loc[p].id][i].IsSubtitle /\ i \notin loc[p].readOK}

\* C22: a SelectFile call in which the read of a subtitle file failed still
\* returns the session without error and with the call's index selected;
\* no entry of the list stems from a failed file, and the entries are those
\* of the list without failures, with the failed files struck out.
C22_FailedReadSkipped ==
  [][\A p \in Workers :
       (pc[p] = "sf_scan" /\ pc'[p] = "idle" /\ FailedReads(p) # {}) =>
          LET s == loc[p].mt
              subs == sess'[s].Subtitles
              Kept(i) == i \notin FailedReads(p)
          IN /\ results' = results \cup {Result(loc[p], "sf_scan", s, <<>>, 0)}
             /\ sess'[s].SelectedFile = loc[p].idx
             /\ \A k \in 1 .. Len(subs) : subs[k].Index + 1 \notin FailedReads(p)
             /\ [k \in 1 .. Len(subs) |-> subs[k].Index + 1] =
                  SelectSeq(FullOrder(loc[p].id, loc[p].idx), Kept)]_vars

\* A selection on descriptor 2 returned although the first of its matched
\* candidates could not be read: the list holds the other matched candidate
\* and then the unmatched one.
C22_Witness ==
  \E r \in results :
    /\ r.op = "SelectFile" /\ r.at = "sf_scan" /\ r.err = <<>>
    /\ r.id = 2 /\ r.idx = 0
    /\ Len(FullOrder(2, 0)) = 3
    /\ r.readOK = {FullOrder(2, 0)[2], FullOrder(2, 0)[3]}
    /\ sess[r.ret].mu = 0
    /\ sess[r.ret].SelectedFile = 0
    /\ Len(sess[r.ret].Subtitles) = 2
    /\ sess[r.ret].Subtitles[1].Index + 1 = FullOrder(2, 0)[2]
    /\ sess[r.ret].Subtitles[2].Index + 1 = FullOrder(2, 0)[3]

\* ------------------------------------------------ claims on the priorities

\* C23: when a SelectFile call succeeds, at its return the file at the
\* call's index has priority normal, every other file that is not flagged
\* is-subtitle has priority none, and only files flagged is-subtitle have
\* priority now; for every index, that of an is-subtitle file included.
C23_PrioritiesAtReturn ==
  [][\A p \in Workers :
       (pc[p] = "sf_scan" /\ pc'[p] = "idle") =>
          LET s == loc[p].mt
              files == FilesOf[loc[p].id]
              prio == hnd'[sess[s].Torrent].prio
              sel == loc[p].idx + 1
          IN /\ prio[sel] = "normal"
             /\ \A j \in 1 .. Len(files) :
                  (j # sel /\ ~files[j].IsSubtitle) => prio[j] = "none"
             /\ \A j \in 1 .. Len(files) :
                  prio[j] = "now" => files[j].IsSubtitle]_vars

\* --------------------------------------------------- claims on cancellation

\* C24: once the context is cancelled CleanupLoop returns, whatever the
\* foreground calls do: also when a SelectFile stays blocked in a subtitle
\* read with a session lock held.
C24_CancelledLoopReturns == ctxDone ~> (pc[Sweeper] = "cl_done")

\* ------------------------------------------------ claims on dropped handles

\* Worker p's step works on its session's engine handle: SelectFile sets
\* the priorities, SelectFile raises and reads a subtitle file,
\* GetFileReader lists the files and creates the reader.
UsesHandle(p) ==
  \/ pc[p] = "sf_lock" /\ pc'[p] = "sf_scan"
  \/ pc[p] = "sf_scan" /\ pc'[p] = "sf_scan" /\ loc'[p].i # loc[p].i
  \/ pc[p] = "gr_open" /\ pc'[p] = "idle"

\* C25: no step of SelectFile or GetFileReader works on a handle whose Drop
\* has been called.
C25_NoUseAfterDrop ==
  [][\A p \in Workers :
       UsesHandle(p) => hnd[sess[loc[p].mt].Torrent].drops = 0]_vars

\* ------------------------------------------------ claims on stored handles

\* C26: the engine handle of every session in the registry has not been
\* dropped, whether or not the engine hands the handle it tracks for a
\* descriptor to every AddMagnet call for it.
C26_StoredHandleLive ==
  \A d \in Ids :
    torrents[d] # 0 => hnd[sess[torrents[d]].Torrent].drops = 0

====
